---- MODULE Spec2Model ----
(***************************************************************************)
(* QA-automate: the capture / compare / score pipeline of the analyzers.   *)
(*                                                                         *)
(*   qa-analyzer.mjs  multi-page, three viewports, run-dated directories   *)
(*   qa-design2.mjs   multi-page, one pass per page, fixed directories     *)
(*   quick-start.js   single page, try / catch / finally around the run    *)
(*                                                                         *)
(* The browser, the file system and the PNG / pixelmatch libraries are     *)
(* collaborators: what they return (or throw) is an input of the step that *)
(* calls them.                                                             *)
(***************************************************************************)
EXTENDS Integers, Sequences, FiniteSets, TLC

\* ------------------------------------------------------------------ bounds
\* number of analyzer processes started one after the other
MaxRuns == 2
\* number of direct takeScreenshotWithDiff calls on one analyzer object
MaxCalls == 3

\* number of analysis_error issues an analyzer object has collected when it is
\* assessed (its section analysis can run more than once)
MaxErrors == 11

\* number of text items page.evaluate extracts in performContentAnalysis
MaxItems == 2
\* number of entries of designSpecs.expectedTexts
MaxExpected == 2
\* length of a computed style value read by validateStyles
MaxValue == 3
\* how far, in layout units, a measured side is taken from the designed one
Spread == 12

\* ------------------------------------------------------- program constants
\* if (pixelDiff > 50)
AlertCutoff == 50
\* const penalty = errorCount * 10
PenaltyPerError == 10
\* const baseScore = 100
BaseScore == 100
\* if (widthDiff > 10), if (heightDiff > 10)
SizeTolerance == 10

\* ------------------------------------------------------------------- files
\* A file is absent, unreadable as a PNG, or a PNG raster.  A raster is
\* width x height pixels, numbered 1..width*height in buffer order; lit is the
\* set of pixels that are set (black / white image).
NoFile == [kind |-> "none", width |-> 0, height |-> 0, lit |-> {}]

Corrupt == [kind |-> "corrupt", width |-> 0, height |-> 0, lit |-> {}]

Png(w, h, k) == [kind |-> "png", width |-> w, height |-> h, lit |-> 1..k]

\* what the page can look like when it is captured
Base == Png(10, 10, 0)

Shift50 == Png(10, 10, 50)

Shift51 == Png(10, 10, 51)

Shift75 == Png(10, 10, 75)

Taller == Png(10, 12, 0)

Captures == {Base, Shift50, Shift51, Shift75, Taller}

\* ------------------------------------------------------------- pixelmatch
\* pixelmatch throws "Image sizes do not match" unless both buffers have the
\* length width * height * 4 of the current capture
SizesMatch(img1, img2) == img1.width * img1.height = img2.width * img2.height

\* a count that takes every set pixel of the second image for a changed one
PixelmatchFlipped(img1, img2) == Cardinality(img2.lit)

\* the number of pixels whose colours differ (threshold 0.1 of the range:
\* a set pixel against an unset one always counts)
Pixelmatch(img1, img2) ==
    Cardinality((img1.lit \ img2.lit) \cup (img2.lit \ img1.lit))

\* ------------------------------------------------------------------ issues
Issue(t, s, n) == [type |-> t, section |-> s, pixelsChanged |-> n]

Shot(n, f) == [name |-> n, found |-> f]

\* if (pixelDiff > 50) this.issues.push({ type: 'visual_diff', pixelsChanged })
VisualDiffIssues(pixelDiff) ==
    IF pixelDiff > AlertCutoff THEN <<Issue("visual_diff", "", pixelDiff)>> ELSE <<>>

\* the catch block: fs.copyFile(currentPath, baselinePath)
CatchKeepsBaseline(baselineFile, current) ==
    IF baselineFile.kind = "none" THEN NoFile ELSE baselineFile

CatchBlock(baselineFile, current) == current

\* the screenshots pushed when the try block runs to its end
TryScreenshots == <<Shot("full-page", "undefined"), Shot("diff", "undefined")>>

\* the screenshots pushed when the try block throws
CatchScreenshots == <<Shot("full-page", "undefined")>>

\* takeScreenshotWithDiff after page.screenshot has written current.png:
\* baselineFile is baseline.png before the call, current the capture,
\* diffWritten whether fs.writeFile(diffPath) succeeds.
\*   fs.access throws when the baseline is absent, PNG.sync.read when it is not
\*   a PNG, pixelmatch when the sizes differ, fs.writeFile when the diff cannot
\*   be written; every throw lands in the one catch block.
Compare(baselineFile, current, diffWritten) ==
    LET accessOk  == baselineFile.kind # "none"
        readOk    == accessOk /\ baselineFile.kind = "png"
        sizeOk    == readOk /\ SizesMatch(current, baselineFile)
        pixelDiff == IF sizeOk THEN Pixelmatch(current, baselineFile) ELSE -1
        completed == sizeOk /\ diffWritten
    IN  IF completed
        THEN [baseline |-> baselineFile, screenshots |-> TryScreenshots,
              issues |-> VisualDiffIssues(pixelDiff), pixelDiff |-> pixelDiff,
              caught |-> FALSE]
        ELSE [baseline |-> CatchBlock(baselineFile, current),
              screenshots |-> CatchScreenshots,
              issues |-> <<>>, pixelDiff |-> pixelDiff, caught |-> TRUE]

\* ------------------------------------------------------------------- state
VARIABLES
    script,       \* which analyzer is run
    pc,           \* position of run()
    runDate,      \* this.runDate of the current process (a clock reading)
    site,         \* what the site renders during the current run
    pageIdx,      \* index into pagesToTest
    vpIdx,        \* index into viewports
    browser,      \* "none" | "open" | "closed"
    issues,       \* this.issues
    screenshots,  \* this.screenshots
    files,        \* baseline.png per screenshot directory
    reportFiles,  \* the report files on disk
    report,       \* the report object generateReport returned in this iteration
    started,      \* the (page, viewport) iterations this run has entered
    failure,      \* what made run() reject or land in its catch block
    lastCall,     \* the last takeScreenshotWithDiff call of this iteration
    hist,         \* every takeScreenshotWithDiff call made through the API
    figmaDesignSpecs, \* this.figmaDesignSpecs
    webhook,      \* whether process.env.SLACK_WEBHOOK_URL is set
    alert,        \* the webhook post of the iteration that ended last
    designSpecs,  \* this.designSpecs: expectedSections, expectedTexts
    analysis,     \* report.analysis: the three scores with their status
    dom,          \* the document page.goto loaded: what its locators answer
    figmaLoad,    \* what loadFigmaDesignSpecs did: credentials, request, log
    held,         \* the report object generateReport returned last: the arrays
                  \* it refers to, and what they held when it was returned
    singlePage,   \* the page name given on the command line, "" if none
    fromPage      \* what the page gave the validator under check: the
                  \* extracted texts, a computed style, a bounding box

vars == <<script, pc, runDate, site, pageIdx, vpIdx, browser, issues,
          screenshots, files, reportFiles, report, started, failure,
          lastCall, hist, figmaDesignSpecs, webhook, alert, designSpecs,
          analysis, dom, figmaLoad, held, fromPage, singlePage>>

FileAt(dir) == IF dir \in DOMAIN files THEN files[dir] ELSE NoFile

NoDir == [date |-> -1, page |-> "", vp |-> ""]

NoCall == [dir |-> NoDir, had |-> NoFile, current |-> NoFile, after |-> NoFile,
           pixelDiff |-> -1, caught |-> FALSE, threw |-> FALSE,
           screenshots |-> <<>>, issues |-> <<>>]

NoReport == [name |-> [page |-> "", vp |-> ""], status |-> "", screenshots |-> 0, issues |-> 0,
             visual |-> -1, content |-> -1, technical |-> -1]

\* the multi-page analyzers have no designSpecs field
NoDesignSpecs == [expectedSections |-> <<>>, expectedTexts |-> <<>>]

\* a JavaScript number that is a ratio num / den, or NaN, or Infinity
Num(n, d) == [kind |-> "number", num |-> n, den |-> d]

NaN == [kind |-> "NaN", num |-> 0, den |-> 1]

Infinity == [kind |-> "Infinity", num |-> 0, den |-> 1]

NoScore == [score |-> NaN, status |-> ""]

\* no report.analysis yet
NoAnalysis == [visualCompliance |-> NoScore, contentCompliance |-> NoScore,
               technicalScore |-> NoScore]

\* const pageDir = path.join(this.screenshotBaseDir, `${pageName}-${vp.name}`)
\* with screenshotBaseDir = screenshots/<runDate> (qa-analyzer.mjs), and
\* path.join('screenshots', pageName) (qa-design2.mjs)
PageDir(s, date, pageName, vpName) ==
    IF s = "qa-analyzer"
    THEN [date |-> date, page |-> pageName, vp |-> vpName]
    ELSE [date |-> 0, page |-> pageName, vp |-> ""]

\* the record of one call
CallRecord(dir, current, r) ==
    [dir |-> dir, had |-> FileAt(dir), current |-> current, after |-> r.baseline,
     pixelDiff |-> r.pixelDiff, caught |-> r.caught, threw |-> FALSE,
     screenshots |-> r.screenshots, issues |-> r.issues]

ThrownCall(dir) == [NoCall EXCEPT !.dir = dir, !.had = FileAt(dir),
                                  !.after = FileAt(dir), !.threw = TRUE]

\* async takeScreenshotWithDiff(pageName, dir): page.screenshot may throw
\* (nothing is pushed, the exception leaves the method); otherwise the capture
\* is pushed and compared
TakeScreenshotWithDiff(dir, current, shotOk, diffWritten) ==
    IF shotOk
    THEN LET r == Compare(FileAt(dir), current, diffWritten)
         IN  /\ files' = (dir :> r.baseline) @@ files
             /\ screenshots' = screenshots \o r.screenshots
             /\ issues' = issues \o r.issues
             /\ lastCall' = CallRecord(dir, current, r)
    ELSE /\ lastCall' = ThrownCall(dir)
         /\ UNCHANGED <<files, screenshots, issues>>

\* this.figmaDesignSpecs = null
NoFigma == [loaded |-> FALSE, specs |-> <<>>]

\* no --page= argument (qa-analyzer.mjs), no first argument (part_001)
NoSelection == ""

\* nothing read from the page
NoValue == [kind |-> "none"]

\* no report object returned yet
NoHeld == [name |-> [page |-> "", vp |-> ""], issues |-> <<>>, screenshots |-> <<>>,
           returned |-> [issues |-> <<>>, screenshots |-> <<>>], aliased |-> FALSE]

\* report = { ..., screenshots: this.screenshots, issues: this.issues }: the
\* report refers to the analyzer's two arrays, it does not copy them
ReportObject(name, iss, shots) ==
    [name |-> name, issues |-> iss, screenshots |-> shots,
     returned |-> [issues |-> iss, screenshots |-> shots], aliased |-> TRUE]

\* a push to this.issues / this.screenshots is seen through every reference
\* to the same array
Alias(h, iss, shots) ==
    IF h.aliased THEN [h EXCEPT !.issues = iss, !.screenshots = shots] ELSE h

\* a loop head that leaves the two arrays as they are
KeepLists(iss, shots, h) == [issues |-> iss, screenshots |-> shots, held |-> h]

\* this.issues = []; this.screenshots = []: two new arrays; the report
\* returned before keeps the old ones
ResetLists(iss, shots, h) ==
    [issues |-> <<>>, screenshots |-> <<>>, held |-> [h EXCEPT !.aliased = FALSE]]

\* loadFigmaDesignSpecs has not run
NotLoaded == [credentials |-> FALSE, fetched |-> FALSE, log |-> "none"]

\* no document loaded
NoDom == [sections |-> <<"", "", "">>,
          styles |-> [header |-> <<>>, body |-> <<>>, footer |-> <<>>]]

\* ------------------------------------------- calls through the class's API
\* EnhancedQAAnalyzer is exported; its method can be called for any directory
\* in any order.  The directories hold whatever earlier processes left there.
ApiDirs == {PageDir("qa-design2", 0, "home", ""), PageDir("qa-design2", 0, "about", "")}

\* baseline.png files found when the first process starts: none, or one that
\* an interrupted copy left unreadable
InitialFiles(s) ==
    IF s = "qa-design2"
    THEN {<<>>, PageDir(s, 0, "home", "") :> Corrupt}
    ELSE {<<>>}

InitCalls ==
    /\ script = "qa-design2"
    /\ pc = "api"
    /\ runDate = 0
    /\ site = Base
    /\ pageIdx = 1
    /\ vpIdx = 1
    /\ browser = "open"
    /\ issues = <<>>
    /\ screenshots = <<>>
    /\ files \in InitialFiles("qa-design2")
    /\ reportFiles = {}
    /\ report = NoReport
    /\ started = {}
    /\ failure = "none"
    /\ lastCall = NoCall
    /\ hist = <<>>
    /\ figmaDesignSpecs = NoFigma
    /\ webhook = FALSE
    /\ alert = "none"
    /\ designSpecs = NoDesignSpecs
    /\ analysis = NoAnalysis
    /\ dom = NoDom
    /\ figmaLoad = NotLoaded
    /\ held = NoHeld
    /\ fromPage = NoValue
    /\ singlePage = NoSelection

CallTakeScreenshotWithDiff ==
    /\ pc = "api"
    /\ Len(hist) < MaxCalls
    /\ \E dir \in ApiDirs, current \in Captures, shotOk \in BOOLEAN, diffWritten \in BOOLEAN :
          TakeScreenshotWithDiff(dir, current, shotOk, diffWritten)
    /\ hist' = Append(hist, lastCall')
    /\ UNCHANGED <<singlePage, fromPage, held, dom, figmaLoad, designSpecs, analysis, script, pc, runDate, site, pageIdx, vpIdx, browser,
                   reportFiles, report, started, failure, figmaDesignSpecs,
                   webhook, alert>>

NextCalls == CallTakeScreenshotWithDiff

SpecCalls == InitCalls /\ [][NextCalls]_vars


\* --------------------------------------------------- the multi-page run()
\* this.pagesToTest (the first two configured pages)
PagesToTest == <<"home", "about">>

\* this.viewports; qa-design2.mjs has no viewport loop: one pass per page
Viewports(s) ==
    IF s = "qa-analyzer" THEN <<"mobile", "tablet", "desktop">> ELSE <<"">>

\* this.defaultSections
DefaultSections(pageName) ==
    CASE pageName = "home"  -> <<"hero", "features", "footer">>
      [] pageName = "about" -> <<"team", "mission", "footer">>
      [] OTHER              -> <<>>

\* what loadFigmaDesignSpecs stores when the file loads: per page key, the
\* names of the node's children that have a bounding box
FigmaLoaded == [loaded |-> TRUE, specs |-> [home |-> <<"hero", "pricing">>, about |-> <<>>]]

\* the reply has no node for the page "about": no key is stored for it
FigmaLoadedHomeOnly == [loaded |-> TRUE, specs |-> [home |-> <<"hero", "pricing">>]]

FigmaReplies == {FigmaLoaded, FigmaLoadedHomeOnly}

\* catch (err): the failure is logged, this.figmaDesignSpecs = null
FigmaLoadFailed == NoFigma

\* loadFigmaDesignSpecs(): returns at once without FIGMA_TOKEN / FIGMA_FILE_ID;
\* otherwise asks for the nodes and stores the section names per page key, or
\* (request, authorisation or parsing throws) lands in the catch block
LoadFigmaDesignSpecs(credentials, ok, reply) ==
    IF ~credentials
    THEN /\ figmaDesignSpecs' = figmaDesignSpecs
         /\ figmaLoad' = [credentials |-> FALSE, fetched |-> FALSE, log |-> "no-config"]
    ELSE IF ok
    THEN /\ figmaDesignSpecs' = reply
         /\ figmaLoad' = [credentials |-> TRUE, fetched |-> TRUE, log |-> "loaded"]
    ELSE /\ figmaDesignSpecs' = FigmaLoadFailed
         /\ figmaLoad' = [credentials |-> TRUE, fetched |-> TRUE, log |-> "failed"]

\* part_001, with FIGMA_PAGE_NODE_IDS: one request per page, each in its own
\* try / catch.  outcome[p] is "ok" (the node's sections are stored), "missing"
\* (no such node: a warning) or "throws" (the request failed: a warning).
NodeOutcomes == [{"home", "about"} -> {"ok", "missing", "throws"}]

PerNodeSpecs(outcome) ==
    [p \in {q \in {"home", "about"} : outcome[q] = "ok"} |-> FigmaLoaded.specs[p]]

\* part_001, without FIGMA_PAGE_NODE_IDS: parseFigmaSections(data.document)
\* is the array of the document's child names, which has no page key
FigmaFileArray == [loaded |-> TRUE, specs |-> <<>>]

\* loadFigmaDesignSpecs() of part_001
LoadFigmaPerNode(credentials, nodeIds, outcome, fileOk) ==
    IF ~credentials
    THEN /\ figmaDesignSpecs' = figmaDesignSpecs
         /\ figmaLoad' = [credentials |-> FALSE, fetched |-> FALSE, log |-> "no-config"]
    ELSE IF nodeIds
    THEN /\ figmaDesignSpecs' = [loaded |-> TRUE, specs |-> PerNodeSpecs(outcome)]
         /\ figmaLoad' = [credentials |-> TRUE, fetched |-> TRUE,
                          log |-> IF \E p \in DOMAIN outcome : outcome[p] = "throws"
                                  THEN "failed" ELSE "loaded"]
    ELSE IF fileOk
    THEN /\ figmaDesignSpecs' = FigmaFileArray
         /\ figmaLoad' = [credentials |-> TRUE, fetched |-> TRUE, log |-> "loaded"]
    ELSE /\ figmaDesignSpecs' = FigmaLoadFailed
         /\ figmaLoad' = [credentials |-> TRUE, fetched |-> TRUE, log |-> "failed"]

\* const expected = this.figmaDesignSpecs?.[pageName]
\*                  || this.defaultSections[pageName] || []
\* (an array, empty or not, is truthy)
Expected(pageName) ==
    IF figmaDesignSpecs.loaded /\ pageName \in DOMAIN figmaDesignSpecs.specs
    THEN figmaDesignSpecs.specs[pageName]
    ELSE DefaultSections(pageName)

\* what the site can render during one run
RunSites == {Base, Shift75, Taller}

\* part_001's constructor: this.pagesToTest.filter(p => p.name === this.runPage)
\* when an argument was given; the other programs keep the configured list
Pages ==
    IF script = "part_001" /\ singlePage # NoSelection
    THEN SelectSeq(PagesToTest, LAMBDA p : p = singlePage)
    ELSE PagesToTest

CurPage == Pages[pageIdx]

\* a loop head that skips nothing
ContinueNever(pageName) == FALSE

\* qa-analyzer.mjs: if (this.singlePage && this.singlePage !== pageName) continue
Continue(pageName) ==
    script = "qa-analyzer" /\ singlePage # NoSelection /\ singlePage # pageName

CurVp == Viewports(script)[vpIdx]

CurDir == PageDir(script, runDate, CurPage, CurVp)

Iteration == [page |-> CurPage, vp |-> CurVp]

InitRun ==
    /\ script \in {"qa-analyzer", "qa-design2", "part_001"}
    /\ pc = "idle"
    /\ runDate = 0
    /\ site = Base
    /\ pageIdx = 1
    /\ vpIdx = 1
    /\ browser = "none"
    /\ issues = <<>>
    /\ screenshots = <<>>
    /\ files \in InitialFiles(script)
    /\ reportFiles = {}
    /\ report = NoReport
    /\ started = {}
    /\ failure = "none"
    /\ lastCall = NoCall
    /\ hist = <<>>
    /\ figmaDesignSpecs = NoFigma
    /\ webhook = FALSE
    /\ alert = "none"
    /\ designSpecs = NoDesignSpecs
    /\ analysis = NoAnalysis
    /\ dom = NoDom
    /\ figmaLoad = NotLoaded
    /\ held = NoHeld
    /\ fromPage = NoValue
    /\ singlePage = NoSelection

\* new EnhancedQAAnalyzer(): a new process; the clock has moved on since the
\* last one started
Construct ==
    /\ pc \in {"idle", "done", "rejected"}
    /\ runDate < MaxRuns
    /\ runDate' = runDate + 1
    /\ \E s \in RunSites : site' = s
    /\ \E w \in BOOLEAN : webhook' = (w /\ script = "qa-analyzer")
    /\ pc' = "initialize"
    /\ pageIdx' = 1
    /\ vpIdx' = 1
    /\ browser' = "none"
    /\ issues' = <<>>
    /\ screenshots' = <<>>
    /\ reportFiles' = {}
    /\ report' = NoReport
    /\ started' = {}
    /\ failure' = "none"
    /\ lastCall' = NoCall
    /\ figmaDesignSpecs' = NoFigma
    /\ figmaLoad' = NotLoaded
    /\ dom' = NoDom
    /\ held' = NoHeld
    /\ alert' = "none"
    /\ UNCHANGED <<singlePage, fromPage, designSpecs, analysis, script, files, hist>>

\* initialize(): createDirectories, loadFigmaDesignSpecs, chromium.launch,
\* newPage
Initialize ==
    /\ pc = "initialize"
    /\ IF script = "part_001"
       THEN \E credentials \in BOOLEAN, nodeIds \in BOOLEAN, fileOk \in BOOLEAN,
               outcome \in NodeOutcomes :
                LoadFigmaPerNode(credentials, nodeIds, outcome, fileOk)
       ELSE \E credentials \in BOOLEAN, ok \in BOOLEAN, reply \in FigmaReplies :
                LoadFigmaDesignSpecs(credentials, ok, reply)
    /\ browser' = "open"
    /\ pc' = "loop"
    /\ UNCHANGED <<singlePage, fromPage, held, dom, designSpecs, analysis, script, runDate, site, pageIdx, vpIdx, issues, screenshots,
                   files, reportFiles, report, started, failure, lastCall,
                   hist, webhook, alert>>

\* analyzeSections: per expected section, the locator's first element is
\* visible (captured), not visible, or the lookup / capture throws.  A loaded
\* page is one of these: the outcome of the 1st, 2nd and 3rd expected section.
AllVisible == <<"visible", "visible", "visible">>

SectionProfiles ==
    { AllVisible,
      <<"visible", "hidden", "visible">>,
      <<"throws", "visible", "hidden">>,
      <<"hidden", "throws", "throws">> }

\* per check: the outcome of color, then of font-family
AllMatch ==
    [header |-> <<"match", "match">>, body |-> <<"match", "match">>, footer |-> <<"match", "match">>]

StyleProfiles ==
    { AllMatch,
      [header |-> <<"mismatch", "match">>, body |-> <<"match", "match">>, footer |-> <<"match", "mismatch">>],
      [header |-> <<"throws", "match">>, body |-> <<"match", "match">>, footer |-> <<"mismatch", "throws">>] }

\* the documents page.goto can load: every section profile with a page whose
\* styles match, every style profile with a page whose sections are visible,
\* and a page where both validators meet a throw.  qa-design2.mjs never looks
\* at styles.
Documents ==
    IF script = "qa-analyzer"
    THEN {[sections |-> sp, styles |-> AllMatch] : sp \in SectionProfiles}
         \cup {[sections |-> AllVisible, styles |-> st] : st \in StyleProfiles}
         \cup {[sections |-> <<"throws", "visible", "hidden">>,
                styles |-> [header |-> <<"throws", "match">>, body |-> <<"match", "match">>,
                            footer |-> <<"mismatch", "throws">>]]}
    ELSE {[sections |-> sp, styles |-> NoDom.styles] : sp \in SectionProfiles}

\* the head of the loop body: the lists are reset, then page.goto, which is
\* awaited outside any try block
Visit ==
    /\ pc = "loop"
    /\ pageIdx <= Len(Pages)
    /\ IF Continue(CurPage)
       THEN /\ pageIdx' = pageIdx + 1
            /\ UNCHANGED <<pc, vpIdx, issues, screenshots, held, lastCall, alert, started,
                           failure, dom>>
       ELSE /\ LET fresh == ResetLists(issues, screenshots, held)
               IN  /\ issues' = fresh.issues
                   /\ screenshots' = fresh.screenshots
                   /\ held' = fresh.held
            /\ lastCall' = NoCall
            /\ alert' = "none"
            /\ started' = started \cup {Iteration}
            /\ pageIdx' = pageIdx
            /\ vpIdx' = vpIdx
            /\ \E gotoOk \in BOOLEAN :
                  IF gotoOk
                  THEN /\ pc' = "takeScreenshotWithDiff"
                       /\ failure' = failure
                       /\ dom' \in Documents
                  ELSE /\ pc' = "rejected"
                       /\ failure' = "goto"
                       /\ dom' = dom
    /\ UNCHANGED <<singlePage, fromPage, figmaLoad, designSpecs, analysis, script, runDate, site, browser, files,
                   reportFiles, report, hist, figmaDesignSpecs, webhook>>

\* await this.takeScreenshotWithDiff(...)
RunTakeScreenshotWithDiff ==
    /\ pc = "takeScreenshotWithDiff"
    /\ \E shotOk \in BOOLEAN, diffWritten \in BOOLEAN :
          /\ TakeScreenshotWithDiff(CurDir, site, shotOk, diffWritten)
          /\ held' = Alias(held, issues', screenshots')
          /\ IF shotOk
             THEN pc' = "analyzeSections" /\ failure' = failure
             ELSE pc' = "rejected" /\ failure' = "screenshot"
    /\ UNCHANGED <<singlePage, fromPage, dom, figmaLoad, designSpecs, analysis, script, runDate, site, pageIdx, vpIdx, browser, reportFiles,
                   report, started, hist, figmaDesignSpecs, webhook, alert>>

\* a loop body whose catch block records nothing
SectionIssueSilent(section, outcome) ==
    IF outcome = "hidden" THEN <<Issue("missing_section", section, -1)>> ELSE <<>>

SectionIssue(section, outcome) ==
    IF outcome = "hidden" THEN <<Issue("missing_section", section, -1)>>
    ELSE IF outcome = "throws" THEN <<Issue("error", section, -1)>>
    ELSE <<>>

SectionShot(section, outcome) ==
    IF outcome = "visible" THEN <<Shot(section, "undefined")>> ELSE <<>>

RECURSIVE SectionIssues(_, _, _)
\* a loop that puts each section's issue in front of the earlier ones
SectionIssuesBackwards(expected, out, i) ==
    IF i > Len(expected) THEN <<>>
    ELSE SectionIssues(expected, out, i + 1) \o SectionIssue(expected[i], out[i])

\* for (const section of expected) { ... this.issues.push(...) }
SectionIssues(expected, out, i) ==
    IF i > Len(expected) THEN <<>>
    ELSE SectionIssue(expected[i], out[i]) \o SectionIssues(expected, out, i + 1)

RECURSIVE SectionShots(_, _, _)
SectionShots(expected, out, i) ==
    IF i > Len(expected) THEN <<>>
    ELSE SectionShot(expected[i], out[i]) \o SectionShots(expected, out, i + 1)

AnalyzeSections ==
    /\ pc = "analyzeSections"
    /\ LET expected == Expected(CurPage)
       IN  /\ issues' = issues \o SectionIssues(expected, dom.sections, 1)
           /\ screenshots' = screenshots \o SectionShots(expected, dom.sections, 1)
    /\ held' = Alias(held, issues', screenshots')
    /\ pc' = IF script = "qa-analyzer" THEN "validateStyles" ELSE "generateReport"
    /\ UNCHANGED <<singlePage, fromPage, dom, figmaLoad, designSpecs, analysis, script, runDate, site, pageIdx, vpIdx, browser, files,
                   reportFiles, report, started, failure, lastCall, hist,
                   figmaDesignSpecs, webhook, alert>>

\* validateStyles: per check (header, body, footer) the locator or an
\* evaluate throws, or each computed property contains the expected value or
\* does not
StyleChecks == <<"header", "body", "footer">>

StyleErrorSection(name) ==
    CASE name = "header" -> "style_validation_header"
      [] name = "body"   -> "style_validation_body"
      [] OTHER           -> "style_validation_footer"

RECURSIVE CheckIssues(_, _, _)
CheckIssues(name, outcomes, k) ==
    IF k > Len(outcomes) THEN <<>>
    ELSE IF outcomes[k] = "throws" THEN <<Issue("error", StyleErrorSection(name), -1)>>
    ELSE IF outcomes[k] = "mismatch"
         THEN <<Issue("style_mismatch", name, -1)>> \o CheckIssues(name, outcomes, k + 1)
    ELSE CheckIssues(name, outcomes, k + 1)

\* a loop that the first throwing check ends
StyleIssuesUntilThrow(styles) ==
    CheckIssues("header", styles.header, 1)
        \o (IF \E k \in 1..Len(styles.header) : styles.header[k] = "throws"
            THEN <<>>
            ELSE CheckIssues("body", styles.body, 1)
                     \o CheckIssues("footer", styles.footer, 1))

\* for (const check of checks) { try { ... } catch (err) { issues.push } }
StyleIssues(styles) ==
    CheckIssues("header", styles.header, 1)
        \o CheckIssues("body", styles.body, 1)
        \o CheckIssues("footer", styles.footer, 1)

ValidateStyles ==
    /\ pc = "validateStyles"
    /\ issues' = issues \o StyleIssues(dom.styles)
    /\ held' = Alias(held, issues', screenshots')
    /\ pc' = "generateReport"
    /\ UNCHANGED <<singlePage, fromPage, dom, figmaLoad, designSpecs, analysis, script, runDate, site, pageIdx, vpIdx, browser, screenshots,
                   files, reportFiles, report, started, failure, lastCall, hist,
                   figmaDesignSpecs, webhook, alert>>

\* a rule under which one issue alone still passes
ReviewStatusLenient(n) == IF n > 1 THEN "REVIEW" ELSE "PASS"

\* summary.status: this.issues.length ? 'REVIEW' : 'PASS'
ReviewStatus(n) == IF n # 0 THEN "REVIEW" ELSE "PASS"

\* generateReport: builds the report from the two lists, writes the HTML file
GenerateReport ==
    /\ pc = "generateReport"
    /\ report' = [NoReport EXCEPT !.name = Iteration,
                                  !.status = ReviewStatus(Len(issues)),
                                  !.screenshots = Len(screenshots),
                                  !.issues = Len(issues)]
    /\ reportFiles' = reportFiles \cup {Iteration}
    /\ held' = ReportObject(Iteration, issues, screenshots)
    /\ pc' = "afterReport"
    /\ UNCHANGED <<singlePage, fromPage, dom, figmaLoad, designSpecs, analysis, script, runDate, site, pageIdx, vpIdx, browser, issues,
                   screenshots, files, started, failure, lastCall, hist,
                   figmaDesignSpecs, webhook, alert>>

\* if (this.issues.length) await this.sendSlackAlert(...)
AlertDue(iss) == Len(iss) # 0

\* a sendSlackAlert that posts whether or not SLACK_WEBHOOK_URL is set
SendSlackAlertUnconfigured(configured, delivered) ==
    IF delivered THEN "sent" ELSE "failed"

\* sendSlackAlert: returns at once without SLACK_WEBHOOK_URL; the fetch is in
\* a try/catch that logs "sent" or "failed" and never rethrows
SendSlackAlert(configured, delivered) ==
    IF ~configured THEN "none"
    ELSE IF delivered THEN "sent" ELSE "failed"

\* the end of the loop body: qa-analyzer.mjs calls sendSlackAlert when
\* this.issues.length is not 0 (it returns at once without a webhook URL, and
\* catches a failed fetch); then the loop moves to the next viewport / page
EndIteration ==
    /\ pc = "afterReport"
    /\ IF script = "qa-analyzer" /\ AlertDue(issues)
       THEN \E delivered \in BOOLEAN : alert' = SendSlackAlert(webhook, delivered)
       ELSE alert' = alert
    /\ IF vpIdx < Len(Viewports(script))
       THEN vpIdx' = vpIdx + 1 /\ pageIdx' = pageIdx
       ELSE vpIdx' = 1 /\ pageIdx' = pageIdx + 1
    /\ report' = NoReport
    /\ dom' = NoDom
    /\ pc' = "loop"
    /\ UNCHANGED <<singlePage, fromPage, held, figmaLoad, designSpecs, analysis, script, runDate, site, browser, issues, screenshots, files,
                   reportFiles, started, failure, lastCall, hist,
                   figmaDesignSpecs, webhook>>

\* after the loop: await this.browser.close()
Close ==
    /\ pc = "loop"
    /\ pageIdx > Len(Pages)
    /\ browser' = "closed"
    /\ pc' = "done"
    /\ UNCHANGED <<singlePage, fromPage, held, dom, figmaLoad, designSpecs, analysis, script, runDate, site, pageIdx, vpIdx, issues, screenshots,
                   files, reportFiles, report, started, failure, lastCall, hist,
                   figmaDesignSpecs, webhook, alert>>

NextRun ==
    \/ Construct
    \/ Initialize
    \/ Visit
    \/ RunTakeScreenshotWithDiff
    \/ AnalyzeSections
    \/ ValidateStyles
    \/ GenerateReport
    \/ EndIteration
    \/ Close

SpecRun == InitRun /\ [][NextRun]_vars

\* the same programs started with a page name: `node qa-analyzer.mjs
\* --page=<name>`, `node part_001 <name>`; the name is a configured page's or
\* it is not.  qa-design2.mjs reads no argument.
Selections == {"home", "about", "contact"}

InitSelect ==
    /\ script \in {"qa-analyzer", "part_001"}
    /\ pc = "idle"
    /\ runDate = 0
    /\ site = Base
    /\ pageIdx = 1
    /\ vpIdx = 1
    /\ browser = "none"
    /\ issues = <<>>
    /\ screenshots = <<>>
    /\ files \in InitialFiles(script)
    /\ reportFiles = {}
    /\ report = NoReport
    /\ started = {}
    /\ failure = "none"
    /\ lastCall = NoCall
    /\ hist = <<>>
    /\ figmaDesignSpecs = NoFigma
    /\ webhook = FALSE
    /\ alert = "none"
    /\ designSpecs = NoDesignSpecs
    /\ analysis = NoAnalysis
    /\ dom = NoDom
    /\ figmaLoad = NotLoaded
    /\ held = NoHeld
    /\ fromPage = NoValue
    /\ singlePage \in Selections

SpecSelect == InitSelect /\ [][NextRun]_vars


\* ------------------- part_003: a visible section and its Figma geometry
\* the sections analyzeViewportSections of part_003 looks for
FigmaSections == <<"hero", "navigation", "features", "trust", "footer">>

\* element.boundingBox() returned null
NoBox == [width |-> -1, height |-> -1]

\* Math.abs
Abs(x) == IF x < 0 THEN -x ELSE x

\* a comparison that reports a side that is off by the tolerance itself
ExceedsOrMeets(diff) == diff >= SizeTolerance

\* widthDiff > 10, heightDiff > 10
Exceeds(diff) == diff > SizeTolerance

\* { type: 'size_mismatch', component, dimension, expected, actual }
SizeMismatch(componentName, dimension, expected, actual) ==
    [type |-> "size_mismatch", component |-> componentName, dimension |-> dimension,
     expected |-> expected, actual |-> actual]

\* validateComponentAgainstFigma(componentName, element)
ValidateComponentAgainstFigma(componentName, figmaSpec, actualSize) ==
    IF actualSize = NoBox THEN <<>>
    ELSE (IF Exceeds(Abs(actualSize.width - figmaSpec.width))
          THEN <<SizeMismatch(componentName, "width", figmaSpec.width, actualSize.width)>>
          ELSE <<>>)
         \o (IF Exceeds(Abs(actualSize.height - figmaSpec.height))
             THEN <<SizeMismatch(componentName, "height", figmaSpec.height, actualSize.height)>>
             ELSE <<>>)

\* the branch of analyzeViewportSections for an element that is visible and
\* was captured: validate if this.figmaDesignSpecs?.components?.[name]
VisibleSectionIssues(name, specs, actualSize) ==
    IF specs.loaded /\ name \in DOMAIN specs.components
    THEN ValidateComponentAgainstFigma(name, specs.components[name], actualSize)
    ELSE <<>>

\* the frames extractComponents can return: a designed size per frame name
DesignedSizes == {[width |-> 100, height |-> 40], [width |-> 40, height |-> 100]}

\* this.figmaDesignSpecs of part_003: null, or the object parseFigmaData returns
NoFigmaFile == [loaded |-> FALSE, components |-> <<>>]

FigmaFiles ==
    {NoFigmaFile}
        \cup {[loaded |-> TRUE, components |-> [n \in names |-> size]] :
                 names \in {{}, {"hero"}, {"hero", "footer"}}, size \in DesignedSizes}

\* ------------------------------------------- quick-start.js and part_003: one page
\* this.designSpecs.expectedSections
ExpectedSections == <<"hero", "features", "trust-indicators", "global-reach", "footer">>

\* this.designSpecs.expectedTexts, by position
ExpectedTexts == <<"A unified switch", "Built for scale",
                   "Powering payments across emerging markets",
                   "Built with local insight. Backed by global scale",
                   "Local -> Global">>

\* this.designSpecs as the constructor builds it
DesignSpecs == [expectedSections |-> ExpectedSections, expectedTexts |-> ExpectedTexts]

\* the sections analyzeViewportSections looks for
QuickSections == <<"hero-section", "navigation", "features", "trust-section", "footer">>

\* the viewports of checkResponsiveDesign
ResponsiveViewports == <<"desktop-large", "tablet", "mobile">>

\* the one report of the run: reports/qa-report.json and qa-report.html
QuickReport == [page |-> "home", vp |-> ""]

\* the two programs that analyse one page
SinglePageScripts == {"quick-start", "part_003"}

InitQuick ==
    /\ script \in SinglePageScripts
    /\ pc = "initialize"
    /\ runDate = 0
    /\ site = Base
    /\ pageIdx = 1
    /\ vpIdx = 1
    /\ browser = "none"
    /\ issues = <<>>
    /\ screenshots = <<>>
    /\ files = <<>>
    /\ reportFiles = {}
    /\ report = NoReport
    /\ started = {}
    /\ failure = "none"
    /\ lastCall = NoCall
    /\ hist = <<>>
    /\ figmaDesignSpecs = NoFigma
    /\ webhook = FALSE
    /\ alert = "none"
    /\ designSpecs = DesignSpecs
    /\ analysis = NoAnalysis
    /\ dom = NoDom
    /\ figmaLoad = NotLoaded
    /\ held = NoHeld
    /\ fromPage = NoValue
    /\ singlePage = NoSelection

\* what no step of quick-start.js touches
QuickFrame == UNCHANGED <<singlePage, fromPage, held, dom, figmaLoad, designSpecs, script, runDate, site, pageIdx, vpIdx, files, started,
                          lastCall, hist, figmaDesignSpecs, webhook, alert>>

\* what loadFigmaDesignSpecs of part_003 can leave in this.figmaDesignSpecs:
\* null, a file without one of the frames, a file with two of them
LoadableFigmaFiles ==
    {NoFigmaFile,
     [loaded |-> TRUE, components |-> <<>>],
     [loaded |-> TRUE, components |-> [n \in {"hero", "footer"} |-> [width |-> 100, height |-> 40]]]}

\* a throw that leaves run() at once
ThrownPastCleanup(what) == pc' = "done" /\ failure' = what

\* a throw inside run()'s try block: the catch block logs it, finally runs
Thrown(what) == pc' = "cleanup" /\ failure' = what

\* initialize(): createDirectories, (part_003: loadFigmaDesignSpecs, which
\* catches its own errors,) chromium.launch, newPage, setViewportSize.
\* The launch fails, or the browser is there and newPage or setViewportSize
\* fails, or all succeed.
QuickInitialize ==
    /\ pc = "initialize"
    /\ \E outcome \in {"ready", "no-browser", "no-page"} :
          CASE outcome = "ready" ->
                 browser' = "open" /\ pc' = "navigateToSite" /\ failure' = failure
            [] outcome = "no-browser" ->
                 browser' = browser /\ Thrown("launch")
            [] OTHER ->
                 browser' = "open" /\ Thrown("newPage")
    /\ IF script = "part_003"
       THEN figmaDesignSpecs' \in LoadableFigmaFiles
       ELSE figmaDesignSpecs' = figmaDesignSpecs
    /\ UNCHANGED <<analysis, issues, screenshots, reportFiles, report>>
    /\ UNCHANGED <<singlePage, fromPage, held, dom, figmaLoad, designSpecs, script, runDate, site, pageIdx, vpIdx, files, started,
                   lastCall, hist, webhook, alert>>

\* navigateToSite(): page.goto with a 30 s timeout; the error is logged and
\* thrown again
NavigateToSite ==
    /\ pc = "navigateToSite"
    /\ started' = started \cup {QuickReport}
    /\ \E gotoOk \in BOOLEAN :
          IF gotoOk
          THEN pc' = "performVisualAnalysis" /\ failure' = failure
          ELSE Thrown("goto")
    /\ UNCHANGED <<browser, issues, screenshots, reportFiles, report>>
    /\ UNCHANGED <<singlePage, fromPage, held, dom, figmaLoad, designSpecs, analysis, script, runDate, site, pageIdx, vpIdx, files,
                   lastCall, hist, figmaDesignSpecs, webhook, alert>>

\* performVisualAnalysis(), first part: the full-page screenshot
PerformVisualAnalysis ==
    /\ pc = "performVisualAnalysis"
    /\ \E shotOk \in BOOLEAN :
          IF shotOk
          THEN /\ screenshots' = Append(screenshots, Shot("full-page", "undefined"))
               /\ pc' = "analyzeViewportSections"
               /\ failure' = failure
          ELSE screenshots' = screenshots /\ Thrown("screenshot")
    /\ UNCHANGED <<analysis, browser, issues, reportFiles, report>>
    /\ QuickFrame

\* analyzeViewportSections(): per section the first element is visible and
\* captured (found: true), not visible, or the lookup / capture throws
QuickSectionIssue(section, outcome) ==
    IF outcome = "hidden" THEN <<Issue("missing_section", section, -1)>>
    ELSE IF outcome = "throws" THEN <<Issue("analysis_error", section, -1)>>
    ELSE <<>>

QuickSectionShot(section, outcome) ==
    IF outcome = "visible" THEN <<Shot(section, "true")>> ELSE <<>>

RECURSIVE QuickSectionIssues(_, _, _)
QuickSectionIssues(sections, out, i) ==
    IF i > Len(sections) THEN <<>>
    ELSE QuickSectionIssue(sections[i], out[i]) \o QuickSectionIssues(sections, out, i + 1)

RECURSIVE QuickSectionShots(_, _, _)
QuickSectionShots(sections, out, i) ==
    IF i > Len(sections) THEN <<>>
    ELSE QuickSectionShot(sections[i], out[i]) \o QuickSectionShots(sections, out, i + 1)

\* part_003: what boundingBox() returns for a section of the page, as the
\* difference to the designed size; the page is to scale, too wide, or too
\* narrow and too tall, or boundingBox() returns null
Measurements == {<<0, 0>>, <<11, 0>>, <<-11, 11>>}

MeasuredBox(size, off) == [width |-> size.width + off[1], height |-> size.height + off[2]]

\* part_003's loop body: a visible section is validated against its Figma
\* frame, if there is one, before its screenshot is recorded
EnhancedSectionIssue(section, outcome, specs, off) ==
    IF outcome = "visible"
    THEN IF specs.loaded /\ section \in DOMAIN specs.components
         THEN VisibleSectionIssues(section, specs,
                                   IF off = <<>> THEN NoBox
                                   ELSE MeasuredBox(specs.components[section], off))
         ELSE <<>>
    ELSE QuickSectionIssue(section, outcome)

RECURSIVE EnhancedSectionIssues(_, _, _, _, _)
EnhancedSectionIssues(sections, out, specs, off, i) ==
    IF i > Len(sections) THEN <<>>
    ELSE EnhancedSectionIssue(sections[i], out[i], specs, off)
             \o EnhancedSectionIssues(sections, out, specs, off, i + 1)

\* the sections the program looks for
AnalysedSections(s) == IF s = "part_003" THEN FigmaSections ELSE QuickSections

AnalyzeViewportSections ==
    /\ pc = "analyzeViewportSections"
    /\ \E out \in [1..Len(AnalysedSections(script)) -> {"visible", "hidden", "throws"}] :
          /\ IF script = "part_003"
             THEN \E off \in Measurements \cup {<<>>} :
                     issues' = issues \o EnhancedSectionIssues(FigmaSections, out,
                                                               figmaDesignSpecs, off, 1)
             ELSE issues' = issues \o QuickSectionIssues(QuickSections, out, 1)
          /\ screenshots' = screenshots \o QuickSectionShots(AnalysedSections(script), out, 1)
    /\ pc' = "checkResponsiveDesign"
    /\ UNCHANGED <<analysis, browser, reportFiles, report, failure>>
    /\ QuickFrame

\* checkResponsiveDesign(): one full-page screenshot per viewport, pushed as
\* it is taken; a capture that throws ends the loop and the analysis
RECURSIVE ResponsiveShots(_)
ResponsiveShots(k) ==
    IF k = 0 THEN <<>>
    ELSE Append(ResponsiveShots(k - 1), Shot(ResponsiveViewports[k], "undefined"))

CheckResponsiveDesign ==
    /\ pc = "checkResponsiveDesign"
    /\ \E taken \in 0..Len(ResponsiveViewports) :
          /\ screenshots' = screenshots \o ResponsiveShots(taken)
          /\ IF taken = Len(ResponsiveViewports)
             THEN pc' = "performContentAnalysis" /\ failure' = failure
             ELSE Thrown("screenshot")
    /\ UNCHANGED <<analysis, browser, issues, reportFiles, report>>
    /\ QuickFrame

\* performContentAnalysis(): page.evaluate extracts the texts (or throws);
\* validateExpectedContent pushes one missing_content issue per expected text
\* the extracted text does not contain.  present: the expected texts it contains.
RECURSIVE MissingContent(_, _)
MissingContent(present, i) ==
    IF i > Len(ExpectedTexts) THEN <<>>
    ELSE (IF i \in present THEN <<>> ELSE <<Issue("missing_content", ExpectedTexts[i], -1)>>)
         \o MissingContent(present, i + 1)

PerformContentAnalysis ==
    /\ pc = "performContentAnalysis"
    /\ \/ \E present \in SUBSET (1..Len(ExpectedTexts)) :
             /\ issues' = issues \o MissingContent(present, 1)
             /\ pc' = "performTechnicalAnalysis"
             /\ failure' = failure
       \/ issues' = issues /\ Thrown("evaluate")
    /\ UNCHANGED <<analysis, browser, screenshots, reportFiles, report>>
    /\ QuickFrame

\* performTechnicalAnalysis(): two page.evaluate calls; its result is not kept
PerformTechnicalAnalysis ==
    /\ pc = "performTechnicalAnalysis"
    /\ \E evaluated \in BOOLEAN :
          IF evaluated
          THEN pc' = "generateReport" /\ failure' = failure
          ELSE Thrown("evaluate")
    /\ UNCHANGED <<analysis, browser, issues, screenshots, reportFiles, report>>
    /\ QuickFrame

CountType(seq, t) == Cardinality({k \in 1..Len(seq) : seq[k].type = t})

\* a count of the entries that say found: true
FoundSectionsMarked(shots) == Cardinality({k \in 1..Len(shots) : shots[k].found = "true"})

\* this.screenshots.filter(s => s.found !== false).length
FoundSections(shots) == Cardinality({k \in 1..Len(shots) : shots[k].found # "false"})

\* (foundSections / totalSections) * 100; with five sections the double is the
\* exact multiple of 20
AssessVisualCompliance(shots) ==
    (FoundSections(shots) * 100) \div Len(ExpectedSections)

\* ((totalExpectedTexts - missingTexts) / totalExpectedTexts) * 100
AssessContentCompliance(iss) ==
    ((Len(ExpectedTexts) - CountType(iss, "missing_content")) * 100) \div Len(ExpectedTexts)

\* a score that charges every issue, of whatever type, and has no floor
CalculateTechnicalScoreAnyIssue(iss) == BaseScore - Len(iss) * PenaltyPerError

\* Math.max(0, baseScore - errorCount * 10)
CalculateTechnicalScore(iss) ==
    LET score == BaseScore - CountType(iss, "analysis_error") * PenaltyPerError
    IN  IF score > 0 THEN score ELSE 0

\* (a / b) * 100 in doubles, a and b counts: 0 / 0 is NaN, a / 0 is Infinity
RatioTimes100(a, b) ==
    IF b = 0 THEN (IF a = 0 THEN NaN ELSE Infinity) ELSE Num(a * 100, b)

\* a classification with the cut between GOOD and FAIR placed above 80
StatusTierStrict(v) ==
    IF v.kind = "NaN" THEN "POOR"
    ELSE IF v.kind = "Infinity" THEN "GOOD"
    ELSE IF v.num > 80 * v.den THEN "GOOD"
    ELSE IF v.num >= 60 * v.den THEN "FAIR"
    ELSE "POOR"

\* score >= 80 ? 'GOOD' : score >= 60 ? 'FAIR' : 'POOR'
\* (every comparison with NaN is false)
StatusTier(v) ==
    IF v.kind = "NaN" THEN "POOR"
    ELSE IF v.kind = "Infinity" THEN "GOOD"
    ELSE IF v.num >= 80 * v.den THEN "GOOD"
    ELSE IF v.num >= 60 * v.den THEN "FAIR"
    ELSE "POOR"

Scored(v) == [score |-> v, status |-> StatusTier(v)]

\* a count that does not look at the names
FoundWhateverName(expectedSections, shots) ==
    Cardinality({k \in 1..Len(shots) : shots[k].found # "false"})

\* part_003: this.screenshots.filter(s => expectedSections.includes(s.name)
\*                                        && s.found !== false).length
FoundExpectedSections(expectedSections, shots) ==
    Cardinality({k \in 1..Len(shots) :
                    /\ \E j \in 1..Len(expectedSections) : expectedSections[j] = shots[k].name
                    /\ shots[k].found # "false"})

\* part_003's assessVisualCompliance(): the expected list is
\* this.figmaDesignSpecs?.expectedSections || this.defaultDesignSpecs.expectedSections,
\* and parseFigmaData returns no expectedSections
EnhancedVisualCompliance(specs, shots) ==
    Scored(RatioTimes100(FoundExpectedSections(specs.expectedSections, shots),
                         Len(specs.expectedSections)))

\* assessVisualCompliance() with this.designSpecs and this.screenshots as given
VisualCompliance(specs, shots) ==
    Scored(RatioTimes100(FoundSections(shots), Len(specs.expectedSections)))

\* assessContentCompliance() with this.designSpecs and this.issues as given
ContentCompliance(specs, iss) ==
    Scored(RatioTimes100(Len(specs.expectedTexts) - CountType(iss, "missing_content"),
                         Len(specs.expectedTexts)))

\* calculateTechnicalScore()
TechnicalScore(iss) == Scored(Num(CalculateTechnicalScore(iss), 1))

\* part_003's generateSimpleAIAnalysis()
EnhancedAIAnalysis(specs, shots, iss) ==
    [visualCompliance |-> EnhancedVisualCompliance(specs, shots),
     contentCompliance |-> ContentCompliance(specs, iss),
     technicalScore |-> TechnicalScore(iss)]

\* generateSimpleAIAnalysis(): the three assessments
GenerateSimpleAIAnalysis(specs, shots, iss) ==
    [visualCompliance |-> VisualCompliance(specs, shots),
     contentCompliance |-> ContentCompliance(specs, iss),
     technicalScore |-> TechnicalScore(iss)]

\* summary.status: this.issues.length === 0 ? 'PASS' : 'NEEDS_REVIEW'
NeedsReviewStatus(n) == IF n = 0 THEN "PASS" ELSE "NEEDS_REVIEW"

\* generateReport(): the report with its analysis, written as JSON and HTML;
\* a write that fails throws before the report is returned
QuickGenerateReport ==
    /\ pc = "generateReport"
    /\ analysis' = IF script = "part_003"
                   THEN EnhancedAIAnalysis(designSpecs, screenshots, issues)
                   ELSE GenerateSimpleAIAnalysis(designSpecs, screenshots, issues)
    /\ \E written \in BOOLEAN :
          IF written
          THEN /\ report' = [name |-> QuickReport,
                             status |-> NeedsReviewStatus(Len(issues)),
                             screenshots |-> Len(screenshots),
                             issues |-> Len(issues),
                             visual |-> IF script = "part_003"
                                        THEN (FoundExpectedSections(ExpectedSections, screenshots) * 100)
                                                 \div Len(ExpectedSections)
                                        ELSE AssessVisualCompliance(screenshots),
                             content |-> AssessContentCompliance(issues),
                             technical |-> CalculateTechnicalScore(issues)]
               /\ reportFiles' = reportFiles \cup {QuickReport}
               /\ pc' = "cleanup"
               /\ failure' = failure
          ELSE /\ report' = report
               /\ reportFiles' = reportFiles
               /\ Thrown("write")
    /\ UNCHANGED <<browser, issues, screenshots>>
    /\ QuickFrame

\* finally: cleanup() closes the browser if there is one
Cleanup ==
    /\ pc = "cleanup"
    /\ browser' = IF browser = "open" THEN "closed" ELSE browser
    /\ pc' = "done"
    /\ UNCHANGED <<analysis, issues, screenshots, reportFiles, report, failure>>
    /\ QuickFrame

NextQuick ==
    \/ QuickInitialize
    \/ NavigateToSite
    \/ PerformVisualAnalysis
    \/ AnalyzeViewportSections
    \/ CheckResponsiveDesign
    \/ PerformContentAnalysis
    \/ PerformTechnicalAnalysis
    \/ QuickGenerateReport
    \/ Cleanup

SpecQuick == InitQuick /\ [][NextQuick]_vars

\* run() is one chain of awaits: a step that can be taken is taken
SpecQuickFair == SpecQuick /\ WF_vars(NextQuick)

\* ----------------------------------- the assessments as functions of the
\* analyzer's fields.  QuickQAAnalyzer is exported and its fields are public:
\* designSpecs is whatever the caller left there, screenshots and issues what
\* the analysis steps pushed.
\* the screenshots a run can push, in the order it pushes them
AllShots ==
    <<Shot("full-page", "undefined")>>
        \o QuickSectionShots(QuickSections, [i \in 1..Len(QuickSections) |-> "visible"], 1)
        \o ResponsiveShots(Len(ResponsiveViewports))

\* e failed section lookups, then m expected texts missing
RECURSIVE ScoreIssues(_, _)
ScoreIssues(e, m) ==
    IF e > 0
    THEN <<Issue("analysis_error", QuickSections[((e - 1) % Len(QuickSections)) + 1], -1)>>
             \o ScoreIssues(e - 1, m)
    ELSE IF m > 0 THEN <<Issue("missing_content", ExpectedTexts[m], -1)>> \o ScoreIssues(0, m - 1)
    ELSE <<>>

InitScore ==
    /\ script = "quick-start"
    /\ pc = "assess"
    /\ runDate = 0
    /\ site = Base
    /\ pageIdx = 1
    /\ vpIdx = 1
    /\ browser = "open"
    /\ \E n \in 0..Len(ExpectedSections), t \in 0..Len(ExpectedTexts) :
          /\ designSpecs = [expectedSections |-> SubSeq(ExpectedSections, 1, n),
                            expectedTexts |-> SubSeq(ExpectedTexts, 1, t)]
          /\ \E e \in 0..MaxErrors, m \in 0..t : issues = ScoreIssues(e, m)
    /\ \E k \in 0..Len(AllShots) : screenshots = SubSeq(AllShots, 1, k)
    /\ files = <<>>
    /\ reportFiles = {}
    /\ report = NoReport
    /\ started = {}
    /\ failure = "none"
    /\ lastCall = NoCall
    /\ hist = <<>>
    /\ figmaDesignSpecs = NoFigma
    /\ webhook = FALSE
    /\ alert = "none"
    /\ analysis = NoAnalysis
    /\ dom = NoDom
    /\ figmaLoad = NotLoaded
    /\ held = NoHeld
    /\ fromPage = NoValue
    /\ singlePage = NoSelection

\* generateSimpleAIAnalysis() called on the object
Assess ==
    /\ pc = "assess"
    /\ analysis' = GenerateSimpleAIAnalysis(designSpecs, screenshots, issues)
    /\ pc' = "assessed"
    /\ UNCHANGED <<singlePage, fromPage, held, dom, figmaLoad, script, runDate, site, pageIdx, vpIdx, browser, issues,
                   screenshots, files, reportFiles, report, started, failure,
                   lastCall, hist, figmaDesignSpecs, webhook, alert, designSpecs>>

SpecScore == InitScore /\ [][Assess]_vars

\* -------------------------- validateExpectedContent as a function of the
\* extracted texts and designSpecs.expectedTexts.  A text is a sequence of
\* characters; "L" and "G" are upper-case letters, "l" and "g" their
\* lower-case forms, " " the blank.
\* String.prototype.toLowerCase, one character
ToLowerCaseChar(ch) ==
    CASE ch = "L" -> "l"
      [] ch = "G" -> "g"
      [] OTHER -> ch

\* a toLowerCase that leaves the text as it is
ToLowerCaseNoop(str) == str

\* String.prototype.toLowerCase
ToLowerCase(str) == [i \in 1..Len(str) |-> ToLowerCaseChar(str[i])]

\* String.prototype.includes
Includes(str, search) ==
    \E i \in 0..(Len(str) - Len(search)) : SubSeq(str, i + 1, i + Len(search)) = search

\* Array.prototype.join(' ')
RECURSIVE Join(_)
Join(texts) ==
    IF Len(texts) = 0 THEN <<>>
    ELSE IF Len(texts) = 1 THEN texts[1]
    ELSE texts[1] \o <<" ">> \o Join(Tail(texts))

\* the texts of a list of extracted items: list.map(x => x.text)
Texts(items) == [i \in 1..Len(items) |-> items[i].text]

\* [...headings.map(h => h.text), ...paragraphs.map(p => p.text),
\*  ...buttons.map(b => b.text), ...links.map(l => l.text)]
TextsOf(tc) ==
    Texts(tc.headings) \o Texts(tc.paragraphs) \o Texts(tc.buttons) \o Texts(tc.links)

\* const allText = [...].join(' ').toLowerCase()
AllText(tc) == ToLowerCase(Join(TextsOf(tc)))

\* validateExpectedContent: one missing_content issue per expected text that
\* allText does not include
RECURSIVE ValidateExpectedContent(_, _, _)
ValidateExpectedContent(tc, expectedTexts, i) ==
    IF i > Len(expectedTexts) THEN <<>>
    ELSE (IF Includes(AllText(tc), ToLowerCase(expectedTexts[i]))
          THEN <<>>
          ELSE <<Issue("missing_content", expectedTexts[i], -1)>>)
         \o ValidateExpectedContent(tc, expectedTexts, i + 1)

\* the texts an element of the page can have, trimmed
ItemTexts == {<<>>, <<"l">>, <<"G">>, <<"L", "g">>, <<"l", " ", "G">>}

\* the texts a design can expect
ExpectedChoices == {<<"L">>, <<"l", "G">>, <<"L", " ", "g">>, <<"g", " ", "l">>}

\* the four lists of page.evaluate, in the order they are read
Kinds == <<"headings", "paragraphs", "buttons", "links">>

\* paragraphs and links with an empty text are filtered out by page.evaluate
Extractable ==
    {x \in [kind : 1..Len(Kinds), text : ItemTexts, visible : BOOLEAN] :
        Kinds[x.kind] \in {"paragraphs", "links"} => x.text # <<>>}

OfKind(flat, k) ==
    LET own == SelectSeq(flat, LAMBDA x : x.kind = k)
    IN  [i \in 1..Len(own) |-> [text |-> own[i].text, visible |-> own[i].visible]]

\* the object page.evaluate returns
TextContent(flat) ==
    [kind |-> "textContent",
     headings |-> OfKind(flat, 1), paragraphs |-> OfKind(flat, 2),
     buttons |-> OfKind(flat, 3), links |-> OfKind(flat, 4)]

TextContents ==
    {TextContent(flat) :
        flat \in {f \in UNION {[1..n -> Extractable] : n \in 0..MaxItems} :
                    \A i \in 1..(Len(f) - 1) : f[i].kind <= f[i + 1].kind}}

ExpectedLists ==
    {e \in UNION {[1..n -> ExpectedChoices] : n \in 1..MaxExpected} :
        \A i, j \in 1..Len(e) : i # j => e[i] # e[j]}

InitContent ==
    /\ script = "quick-start"
    /\ pc = "validateExpectedContent"
    /\ runDate = 0
    /\ site = Base
    /\ pageIdx = 1
    /\ vpIdx = 1
    /\ browser = "open"
    /\ issues = <<>>
    /\ screenshots = <<>>
    /\ files = <<>>
    /\ reportFiles = {}
    /\ report = NoReport
    /\ started = {QuickReport}
    /\ failure = "none"
    /\ lastCall = NoCall
    /\ hist = <<>>
    /\ figmaDesignSpecs = NoFigma
    /\ webhook = FALSE
    /\ alert = "none"
    /\ \E e \in ExpectedLists :
          designSpecs = [expectedSections |-> ExpectedSections, expectedTexts |-> e]
    /\ analysis = NoAnalysis
    /\ dom = NoDom
    /\ figmaLoad = NotLoaded
    /\ held = NoHeld
    /\ fromPage \in TextContents
    /\ singlePage = NoSelection

\* this.validateExpectedContent(textContent)
ValidateContent ==
    /\ pc = "validateExpectedContent"
    /\ issues' = issues \o ValidateExpectedContent(fromPage, designSpecs.expectedTexts, 1)
    /\ pc' = "validated"
    /\ UNCHANGED <<analysis, browser, screenshots, reportFiles, report, failure>>
    /\ QuickFrame

SpecContent == InitContent /\ [][ValidateContent]_vars

\* ------------------------ validateStyles' comparison of one property, as a
\* function of the expected value and the computed one.  Values are texts
\* of the letters "I" / "i" and "s", the two quotes and the blank.
\* the characters /['"\s]/ matches
Removed == {"'", "\"", " "}

\* String.prototype.toLowerCase, one character of a style value
LowerStyleChar(ch) == IF ch = "I" THEN "i" ELSE ch

\* a normalisation that lower-cases and removes nothing
NormalizeKeepsQuotes(str) == [i \in 1..Len(str) |-> LowerStyleChar(str[i])]

\* value.toLowerCase().replace(/['"\s]/g, '')
Normalize(str) ==
    SelectSeq([i \in 1..Len(str) |-> LowerStyleChar(str[i])], LAMBDA ch : ch \notin Removed)

\* String.prototype.trim
RECURSIVE Trim(_)
Trim(str) ==
    IF Len(str) = 0 THEN str
    ELSE IF Head(str) = " " THEN Trim(Tail(str))
    ELSE IF str[Len(str)] = " " THEN Trim(SubSeq(str, 1, Len(str) - 1))
    ELSE str

\* { type: 'style_mismatch', section: check.name,
\*   message: `CSS property "${prop}" expected "${expected}", but got "${computedValue.trim()}"` }
StyleMismatch(name, prop, expected, computedValue) ==
    [type |-> "style_mismatch", section |-> name, pixelsChanged |-> -1,
     prop |-> prop, expected |-> expected, actual |-> Trim(computedValue)]

\* the body of the property loop for one [prop, expected] entry
PropertyIssues(name, prop, expected, computedValue) ==
    IF ~Includes(Normalize(computedValue), Normalize(expected))
    THEN <<StyleMismatch(name, prop, expected, computedValue)>>
    ELSE <<>>

\* this.designTokens: values like '"Inter", sans-serif'
ExpectedStyleValues == {<<"\"", "I", "\"", " ", "s">>, <<"i">>, <<"s", "I">>}

\* getComputedStyle(el).getPropertyValue(p)
ComputedValues == UNION {[1..n -> {"'", "\"", " ", "I", "i", "s"}] : n \in 0..MaxValue}

InitStyle ==
    /\ script = "qa-analyzer"
    /\ pc = "checkProperty"
    /\ runDate = 1
    /\ site = Base
    /\ pageIdx = 1
    /\ vpIdx = 1
    /\ browser = "open"
    /\ issues = <<>>
    /\ screenshots = <<>>
    /\ files = <<>>
    /\ reportFiles = {}
    /\ report = NoReport
    /\ started = {[page |-> "home", vp |-> "mobile"]}
    /\ failure = "none"
    /\ lastCall = NoCall
    /\ hist = <<>>
    /\ figmaDesignSpecs = NoFigma
    /\ webhook = FALSE
    /\ alert = "none"
    /\ designSpecs = NoDesignSpecs
    /\ analysis = NoAnalysis
    /\ dom = NoDom
    /\ figmaLoad = NotLoaded
    /\ held = NoHeld
    /\ fromPage \in [kind : {"computedStyle"}, name : {StyleChecks[k] : k \in 1..Len(StyleChecks)},
                     prop : {"color", "font-family"}, expected : ExpectedStyleValues,
                     value : ComputedValues]
    /\ singlePage = NoSelection

\* one pass of the property loop: evaluate returned fromPage.value
CheckProperty ==
    /\ pc = "checkProperty"
    /\ issues' = issues \o PropertyIssues(fromPage.name, fromPage.prop,
                                          fromPage.expected, fromPage.value)
    /\ pc' = "checked"
    /\ UNCHANGED <<singlePage, fromPage, held, dom, figmaLoad, designSpecs, analysis, script, runDate, site,
                   pageIdx, vpIdx, browser, screenshots, files, reportFiles, report,
                   started, failure, lastCall, hist, figmaDesignSpecs, webhook, alert>>

SpecStyle == InitStyle /\ [][CheckProperty]_vars

\* ------------------------------ part_003: one visible section, measured
\* the boxes boundingBox() can return around a designed size
BoxesAround(size) ==
    {NoBox} \cup [width : (size.width - Spread)..(size.width + Spread),
                  height : (size.height - Spread)..(size.height + Spread)]

InitSize ==
    /\ script = "part_003"
    /\ pc = "visibleSection"
    /\ runDate = 0
    /\ site = Base
    /\ pageIdx = 1
    /\ vpIdx = 1
    /\ browser = "open"
    /\ issues = <<>>
    /\ screenshots = <<Shot("full-page", "undefined")>>
    /\ files = <<>>
    /\ reportFiles = {}
    /\ report = NoReport
    /\ started = {QuickReport}
    /\ failure = "none"
    /\ lastCall = NoCall
    /\ hist = <<>>
    /\ figmaDesignSpecs \in FigmaFiles
    /\ webhook = FALSE
    /\ alert = "none"
    /\ designSpecs = DesignSpecs
    /\ analysis = NoAnalysis
    /\ dom = NoDom
    /\ figmaLoad = NotLoaded
    /\ held = NoHeld
    /\ \E name \in {"hero", "footer"}, size \in DesignedSizes :
          fromPage \in [kind : {"boundingBox"}, name : {name}, box : BoxesAround(size)]
    /\ singlePage = NoSelection

\* one pass of the section loop for an element that isVisible() and was
\* captured
AnalyzeVisibleSection ==
    /\ pc = "visibleSection"
    /\ issues' = issues \o VisibleSectionIssues(fromPage.name, figmaDesignSpecs, fromPage.box)
    /\ screenshots' = Append(screenshots, Shot(fromPage.name, "true"))
    /\ pc' = "sectionDone"
    /\ UNCHANGED <<analysis, browser, reportFiles, report, failure>>
    /\ QuickFrame

SpecSize == InitSize /\ [][AnalyzeVisibleSection]_vars

\* ---------------------------------------------------------------- claims
\* the calls that returned (page.screenshot did not throw)
Returned(c) == ~c.threw

HasVisualDiff(c) == \E k \in 1..Len(c.issues) : c.issues[k].type = "visual_diff"

HasDiffShot(c) == \E k \in 1..Len(c.screenshots) : c.screenshots[k].name = "diff"

\* C1: over any sequence of takeScreenshotWithDiff calls, a call that starts
\* with a baseline image present leaves that image as it was (also when
\* reading it, comparing or writing the diff fails); the baseline is written
\* only by a call that starts with none.
C1_BaselineNeverReplaced ==
    \A i \in 1..Len(hist) :
        hist[i].had.kind = "png" => hist[i].after = hist[i].had

\* C8: a call that starts with no baseline stores the current capture as the
\* baseline, pushes the full-page screenshot only (no diff screenshot) and
\* adds no visual_diff issue.
C8_FirstCallCreatesBaseline ==
    \A i \in 1..Len(hist) :
        (hist[i].had.kind = "none" /\ Returned(hist[i])) =>
            /\ hist[i].after = hist[i].current
            /\ hist[i].after.kind = "png"
            /\ hist[i].screenshots = <<Shot("full-page", "undefined")>>
            /\ ~HasDiffShot(hist[i])
            /\ ~HasVisualDiff(hist[i])
            /\ hist[i].issues = <<>>

C8_Witness ==
    \E i \in 1..Len(hist) :
        /\ hist[i].had.kind = "none"
        /\ Returned(hist[i])
        /\ hist[i].after = Shift75
        /\ FileAt(hist[i].dir) = Shift75

\* C9: two calls in a row for the same directory with the same page image,
\* the first starting with no baseline: the first creates the baseline, the
\* second finds it, leaves its content unchanged, counts 0 changed pixels and
\* adds no visual_diff issue.
C9_BaselineCreationIdempotent ==
    \A i \in 1..Len(hist) :
        (/\ i < Len(hist)
         /\ hist[i].dir = hist[i + 1].dir
         /\ hist[i].had.kind = "none"
         /\ Returned(hist[i])
         /\ Returned(hist[i + 1])
         /\ hist[i + 1].current = hist[i].current) =>
            /\ hist[i].after = hist[i].current
            /\ hist[i + 1].had = hist[i].after
            /\ hist[i + 1].after = hist[i].after
            /\ hist[i + 1].pixelDiff = 0
            /\ ~HasVisualDiff(hist[i + 1])

C9_Witness ==
    \E i \in 1..Len(hist) :
        /\ i < Len(hist)
        /\ hist[i].dir = hist[i + 1].dir
        /\ hist[i].had.kind = "none"
        /\ Returned(hist[i])
        /\ Returned(hist[i + 1])
        /\ hist[i].current = Shift75
        /\ hist[i + 1].current = Shift75
        /\ HasDiffShot(hist[i + 1])

\* the baseline the call found cannot be compared with the capture
Uncomparable(c) ==
    \/ c.had.kind = "corrupt"
    \/ /\ c.had.kind = "png"
       /\ (c.had.width # c.current.width \/ c.had.height # c.current.height)

\* C2: when the baseline of the key exists but cannot be compared with the
\* capture (unreadable, or other width / height), takeScreenshotWithDiff
\* records an analysis_error issue (the multi-page analyzers' type 'error'),
\* no visual_diff issue and no diff screenshot, and the run goes on with the
\* section validator.
C2_UncomparableBaselineIsAnIssue ==
    (/\ pc = "analyzeSections"
     /\ Returned(lastCall)
     /\ lastCall.dir # NoDir
     /\ Uncomparable(lastCall)) =>
        /\ \E k \in 1..Len(issues) : issues[k].type \in {"analysis_error", "error"}
        /\ CountType(issues, "visual_diff") = 0
        /\ ~HasDiffShot(lastCall)

\* C3: whenever generateReport has run, the visual, the content and the
\* technical score each lie in 0..100.
C3_ScoresWithinBounds ==
    report # NoReport =>
        /\ report.visual >= 0 /\ report.visual <= 100
        /\ report.content >= 0 /\ report.content <= 100
        /\ report.technical >= 0 /\ report.technical <= 100

\* C4: after a complete run the visual score is 100 * found / expected, found
\* being the expected sections without a missing_section issue; with four of
\* five sections visible and one absent it is 80.
C4_VisualScoreIsSectionRecall ==
    (pc = "done" /\ report # NoReport) =>
        report.visual =
            ((Len(ExpectedSections) - CountType(issues, "missing_section")) * 100)
                \div Len(ExpectedSections)

\* every (page, viewport) pair of the run
AllIterations ==
    {[page |-> PagesToTest[i], vp |-> Viewports(script)[j]] :
        i \in 1..Len(PagesToTest), j \in 1..Len(Viewports(script))}

\* C5: a page.goto that fails aborts its own iteration only: run() goes on to
\* every remaining page and viewport, closes the browser and ends normally.
C5_NavigationFailureAbortsOneIteration ==
    failure = "goto" =>
        /\ pc # "rejected"
        /\ (pc = "done" => browser = "closed" /\ started = AllIterations)

\* C6: when run() has ended, whatever failed on the way (navigation, a
\* capture, a validator), a report has been written for every page it started.
C6_EveryRunWritesAReport ==
    pc = "done" => started \subseteq reportFiles

\* C7: if, when takeScreenshotWithDiff is called for a (page, viewport), a
\* baseline image written for that page and viewport is on disk, the call
\* finds it and compares against it instead of creating a baseline.
C7_BaselineFoundByLaterRuns ==
    (/\ pc = "analyzeSections"
     /\ Returned(lastCall)
     /\ lastCall.dir # NoDir
     /\ \E d \in DOMAIN files :
           /\ d.page = lastCall.dir.page
           /\ d.vp = lastCall.dir.vp
           /\ d # lastCall.dir
           /\ files[d].kind = "png") =>
        (lastCall.had.kind = "png" /\ ~lastCall.caught)

\* the visual_diff issues that carry n changed pixels
DiffIssuesFor(n) ==
    Cardinality({k \in 1..Len(issues) :
                    issues[k].type = "visual_diff" /\ issues[k].pixelsChanged = n})

\* C10: when the baseline exists and the comparison counts n changed pixels,
\* the call adds exactly one visual_diff issue carrying n if n > 50 and none
\* if n <= 50; with n = 75 and no other issue the report's status is REVIEW.
C10_VisualDiffIssueAboveCutoff ==
    (/\ pc = "afterReport"
     /\ Returned(lastCall)
     /\ lastCall.had.kind = "png"
     /\ lastCall.pixelDiff >= 0) =>
        /\ CountType(issues, "visual_diff") = DiffIssuesFor(lastCall.pixelDiff)
        /\ DiffIssuesFor(lastCall.pixelDiff) = (IF lastCall.pixelDiff > 50 THEN 1 ELSE 0)
        /\ (/\ lastCall.pixelDiff = 75
            /\ Len(issues) = CountType(issues, "visual_diff")) => report.status = "REVIEW"


\* C11: a report's status is PASS exactly when the issue list is empty at
\* report time; with any issue of any kind it is REVIEW / NEEDS_REVIEW; the
\* summary's issue count is the length of the issue list.
C11_PassIffNoIssues ==
    report # NoReport =>
        /\ report.status \in {"PASS", "REVIEW", "NEEDS_REVIEW"}
        /\ (report.status = "PASS" <=> Len(issues) = 0)
        /\ report.issues = Len(issues)

C11_Witness ==
    /\ report # NoReport
    /\ Len(issues) = 1
    /\ issues[1].type = "visual_diff"
    /\ report.status = "REVIEW"
    /\ report.issues = 1


\* the score is the number n
IsNumber(v, n) == v.kind = "number" /\ v.num = n * v.den

\* C12: with no expected section the visual score is 100, with no expected
\* text the content score is 100 and its status GOOD; no score is NaN or
\* infinite.
C12_VacuousCompliance ==
    pc = "assessed" =>
        /\ (Len(designSpecs.expectedSections) = 0 =>
                IsNumber(analysis.visualCompliance.score, 100))
        /\ (Len(designSpecs.expectedTexts) = 0 =>
                /\ IsNumber(analysis.contentCompliance.score, 100)
                /\ analysis.contentCompliance.status = "GOOD")
        /\ analysis.visualCompliance.score.kind = "number"
        /\ analysis.contentCompliance.score.kind = "number"


\* a numeric score carries the status of its tier
InItsTier(a) ==
    a.score.kind = "number" =>
        /\ (a.status = "GOOD" <=> a.score.num >= 80 * a.score.den)
        /\ (a.status = "FAIR" <=> (a.score.num >= 60 * a.score.den
                                     /\ a.score.num < 80 * a.score.den))
        /\ (a.status = "POOR" <=> a.score.num < 60 * a.score.den)

\* C13: the visual, the content and the technical score are classified alike:
\* GOOD from 80 up, FAIR from 60 up to (not including) 80, POOR below 60.
C13_StatusTiers ==
    analysis # NoAnalysis =>
        /\ InItsTier(analysis.visualCompliance)
        /\ InItsTier(analysis.contentCompliance)
        /\ InItsTier(analysis.technicalScore)

C13_Witness ==
    /\ pc = "assessed"
    /\ IsNumber(analysis.visualCompliance.score, 80)
    /\ analysis.visualCompliance.status = "GOOD"
    /\ IsNumber(analysis.contentCompliance.score, 60)
    /\ analysis.contentCompliance.status = "FAIR"
    /\ IsNumber(analysis.technicalScore.score, 50)
    /\ analysis.technicalScore.status = "POOR"


\* the issues that record a failed section lookup
FailedLookups == CountType(issues, "analysis_error")

\* C14: the technical score is max(0, 100 - 10 * k), k the number of failed
\* lookups recorded by the section analysis: 10 less per failure, never
\* below 0.
C14_TechnicalScore ==
    analysis # NoAnalysis =>
        /\ analysis.technicalScore.score.kind = "number"
        /\ (FailedLookups <= 10 =>
                IsNumber(analysis.technicalScore.score, 100 - 10 * FailedLookups))
        /\ (FailedLookups > 10 => IsNumber(analysis.technicalScore.score, 0))

C14_Witness ==
    /\ pc = "assessed"
    /\ FailedLookups = 11
    /\ CountType(issues, "missing_content") = 2
    /\ IsNumber(analysis.technicalScore.score, 0)


\* the section validator has just returned
JustAnalyzed ==
    \/ script = "qa-analyzer" /\ pc = "validateStyles"
    \/ script \in {"qa-design2", "part_001"} /\ pc = "generateReport"
    \/ script = "quick-start" /\ pc = "checkResponsiveDesign"

\* the list the validator went through
AnalyzedList == IF script = "quick-start" THEN QuickSections ELSE Expected(CurPage)

SectionShotsOf(section) ==
    Cardinality({k \in 1..Len(screenshots) : screenshots[k].name = section})

IssuesOf(section, t) ==
    Cardinality({k \in 1..Len(issues) :
                    issues[k].type = t /\ issues[k].section = section})

SectionErrorsOf(section) == IssuesOf(section, "error") + IssuesOf(section, "analysis_error")

AllSectionShots ==
    Cardinality({k \in 1..Len(screenshots) : screenshots[k].name \notin {"full-page", "diff"}})

\* C15: for each expected section the validator records exactly one outcome,
\* a section screenshot (visible and captured), a missing_section issue (not
\* visible) or an error issue (lookup or capture threw), each naming the
\* section; screenshots + missing_section issues + error issues add up to the
\* number of expected sections.
C15_OneOutcomePerSection ==
    JustAnalyzed =>
        /\ \A i \in 1..Len(AnalyzedList) :
              LET section == AnalyzedList[i]
              IN  /\ SectionShotsOf(section) + IssuesOf(section, "missing_section")
                        + SectionErrorsOf(section) = 1
                  /\ (script # "quick-start" =>
                        /\ (dom.sections[i] = "visible" => SectionShotsOf(section) = 1)
                        /\ (dom.sections[i] = "hidden" =>
                                IssuesOf(section, "missing_section") = 1)
                        /\ (dom.sections[i] = "throws" => SectionErrorsOf(section) = 1))
        /\ AllSectionShots + CountType(issues, "missing_section")
              + CountType(issues, "error") + CountType(issues, "analysis_error")
                = Len(AnalyzedList)

C15_Witness ==
    /\ JustAnalyzed
    /\ script = "qa-analyzer"
    /\ Len(AnalyzedList) = 3
    /\ dom.sections = <<"throws", "visible", "hidden">>
    /\ AllSectionShots = 1
    /\ CountType(issues, "missing_section") = 1
    /\ CountType(issues, "error") = 1


\* the style validator has just returned
JustValidated == script = "qa-analyzer" /\ pc = "generateReport"

\* the check's first property whose lookup throws (0: none does)
FirstThrow(o) ==
    IF \E k \in 1..Len(o) : o[k] = "throws"
    THEN CHOOSE k \in 1..Len(o) : o[k] = "throws" /\ \A j \in 1..(k - 1) : o[j] # "throws"
    ELSE 0

\* the check's mismatching properties that are looked at
MismatchesSeen(o) ==
    Cardinality({k \in 1..Len(o) :
                    o[k] = "mismatch" /\ (FirstThrow(o) = 0 \/ k < FirstThrow(o))})

\* C16: a lookup that throws inside a validator is recorded as one error issue
\* for its section / style rule and the validator goes on: every later
\* section and every later rule has its own outcome recorded, and run() goes
\* on to the report.
C16_ValidatorErrorsIsolated ==
    /\ JustAnalyzed /\ script # "quick-start" =>
          /\ failure = "none"
          /\ \A i \in 1..Len(AnalyzedList) :
                /\ dom.sections[i] = "throws" => SectionErrorsOf(AnalyzedList[i]) = 1
                /\ dom.sections[i] = "hidden" =>
                      IssuesOf(AnalyzedList[i], "missing_section") = 1
                /\ dom.sections[i] = "visible" => SectionShotsOf(AnalyzedList[i]) = 1
    /\ JustValidated =>
          /\ failure = "none"
          /\ \A i \in 1..Len(StyleChecks) :
                LET name == StyleChecks[i]
                    o == dom.styles[name]
                IN  /\ IssuesOf(StyleErrorSection(name), "error")
                          = (IF FirstThrow(o) = 0 THEN 0 ELSE 1)
                    /\ IssuesOf(name, "style_mismatch") = MismatchesSeen(o)

C16_Witness ==
    /\ JustValidated
    /\ dom.sections = <<"throws", "visible", "hidden">>
    /\ dom.styles.header = <<"throws", "match">>
    /\ dom.styles.footer = <<"mismatch", "throws">>
    /\ Len(AnalyzedList) = 3
    /\ SectionErrorsOf(AnalyzedList[1]) = 1
    /\ SectionShotsOf(AnalyzedList[2]) = 1
    /\ IssuesOf("style_validation_header", "error") = 1
    /\ IssuesOf("footer", "style_mismatch") = 1
    /\ IssuesOf("style_validation_footer", "error") = 1


\* the section names the validator has recorded an outcome for
AnalyzedNames ==
    {screenshots[k].name : k \in {j \in 1..Len(screenshots) :
                                    screenshots[j].name \notin {"full-page", "diff"}}}
        \cup {issues[k].section : k \in {j \in 1..Len(issues) :
                                    issues[j].type \in {"missing_section", "error"}}}

\* the list the design source gives for the page when it has a non-empty
\* entry for it, the built-in list otherwise
ResolvedSections(pageName) ==
    IF /\ figmaDesignSpecs.loaded
       /\ pageName \in DOMAIN figmaDesignSpecs.specs
       /\ figmaDesignSpecs.specs[pageName] # <<>>
    THEN figmaDesignSpecs.specs[pageName]
    ELSE DefaultSections(pageName)

\* C17: the sections analyzed for a page are the design source's list for
\* the page, whole, when it has a non-empty entry for the page, and the
\* built-in default list otherwise (no design spec, no entry, empty entry);
\* never a union of the two.
C17_SectionListResolution ==
    (JustAnalyzed /\ script # "quick-start") =>
        LET resolved == ResolvedSections(CurPage)
        IN  /\ AnalyzedNames = {resolved[i] : i \in 1..Len(resolved)}
            /\ AllSectionShots + CountType(issues, "missing_section")
                  + CountType(issues, "error") = Len(resolved)


\* the built-in list is the one in force for every page
DefaultsInForce ==
    /\ \A i \in 1..Len(PagesToTest) :
          Expected(PagesToTest[i]) = DefaultSections(PagesToTest[i])
    /\ (JustAnalyzed =>
          AnalyzedNames = {DefaultSections(CurPage)[i] :
                              i \in 1..Len(DefaultSections(CurPage))})

\* the issues of the iteration are those of the comparison and of the
\* sections of the built-in list, nothing else
OnlyPageIssues ==
    /\ (pc = "takeScreenshotWithDiff" => issues = <<>>)
    /\ (JustAnalyzed =>
          Len(issues) = Len(lastCall.issues)
              + Cardinality({i \in 1..Len(DefaultSections(CurPage)) :
                                dom.sections[i] # "visible"}))

\* C18: once loadFigmaDesignSpecs has run: with credentials and a load that
\* failed, the failure is logged, the built-in list is used for every page,
\* no issue comes from the failure and the browser is launched for the page
\* runs; without credentials nothing is requested and the built-in lists are
\* used.
C18_FigmaFailureFallsBack ==
    figmaLoad # NotLoaded =>
        /\ ((figmaLoad.credentials /\ figmaLoad.log # "loaded") =>
                /\ figmaLoad.log = "failed"
                /\ DefaultsInForce
                /\ OnlyPageIssues
                /\ browser # "none"
                /\ failure # "figma")
        /\ (~figmaLoad.credentials =>
                /\ ~figmaLoad.fetched
                /\ DefaultsInForce
                /\ browser # "none")


\* what the steps of the current iteration have recorded, from what they met
IterationIssues ==
    lastCall.issues
        \o SectionIssues(Expected(CurPage), dom.sections, 1)
        \o (IF script = "qa-analyzer" THEN StyleIssues(dom.styles) ELSE <<>>)

IterationShots ==
    lastCall.screenshots \o SectionShots(Expected(CurPage), dom.sections, 1)

\* C19: the report of an iteration holds the issues and screenshots recorded
\* in that iteration and no other; a report that was returned keeps the
\* content it was returned with while later iterations run.
C19_ReportsScopedPerIteration ==
    /\ pc = "afterReport" =>
          /\ held.name = Iteration
          /\ held.issues = IterationIssues
          /\ held.screenshots = IterationShots
          /\ report.issues = Len(IterationIssues)
          /\ report.screenshots = Len(IterationShots)
    /\ held # NoHeld =>
          /\ held.issues = held.returned.issues
          /\ held.screenshots = held.returned.screenshots

C19_Witness ==
    /\ pc = "generateReport"
    /\ held.name.page = "home"
    /\ CurPage = "about"
    /\ Len(held.issues) = 2
    /\ Len(issues) = 1
    /\ held.issues = held.returned.issues


Attempted == {"sent", "failed"}

\* C20: in qa-analyzer's run(), with a webhook configured, the step that ends
\* an iteration posts once when the iteration has an issue and not at all when
\* it has none; the post comes after the iteration's report was written; a
\* failed post leaves every report as it was and the loop goes on to the next
\* iteration; without a webhook nothing is ever posted.
C20_OneAlertPerFailingIteration ==
    [][script = "qa-analyzer" /\ script' = script =>
          /\ (pc = "afterReport" /\ pc' # pc) =>
                /\ (alert' \in Attempted) <=> (webhook /\ Len(issues) > 0)
                /\ Iteration \in reportFiles
                /\ report # NoReport
                /\ reportFiles' = reportFiles
                /\ held' = held
                /\ files' = files
                /\ failure' = failure
                /\ pc' = "loop"
                /\ <<pageIdx', vpIdx'>> # <<pageIdx, vpIdx>>
          /\ (pc # "afterReport" /\ alert' \in Attempted) => alert' = alert
          /\ ~webhook' => alert' = "none"]_vars

C20_Witness ==
    /\ script = "qa-analyzer"
    /\ webhook
    /\ alert = "failed"
    /\ pc = "loop"
    /\ pageIdx <= Len(PagesToTest)
    /\ vpIdx = 2
    /\ held.name \in reportFiles
    /\ held.name.vp = "mobile"
    /\ Len(held.issues) > 0


\* the same letter, whatever its case
CasePairs == {<<"L", "l">>, <<"G", "g">>}

SameLetter(a, b) == a = b \/ <<a, b>> \in CasePairs \/ <<b, a>> \in CasePairs

\* text occurs in page, letters compared without regard to case
OccursIgnoringCase(text, page) ==
    \E off \in 0..(Len(page) - Len(text)) :
        \A j \in 1..Len(text) : SameLetter(page[off + j], text[j])

MissingContentFor(text) ==
    Cardinality({k \in 1..Len(issues) :
                    issues[k].type = "missing_content" /\ issues[k].section = text})

\* C21: validateExpectedContent finds an expected text exactly when the text
\* occurs in the page's extracted text, compared without regard to case; an
\* absent text gets exactly one missing_content issue carrying it, a present
\* one gets none, and nothing else is added.
C21_ContentFoundIffSubstring ==
    pc = "validated" =>
        /\ \A k \in 1..Len(designSpecs.expectedTexts) :
              LET text == designSpecs.expectedTexts[k]
              IN  MissingContentFor(text)
                    = IF OccursIgnoringCase(text, Join(TextsOf(fromPage))) THEN 0 ELSE 1
        /\ \A k \in 1..Len(issues) :
              /\ issues[k].type = "missing_content"
              /\ \E j \in 1..Len(designSpecs.expectedTexts) :
                    issues[k].section = designSpecs.expectedTexts[j]

\* 'L g' is expected and the page has 'l G'; 'g l' is expected and absent
C21_Witness ==
    /\ pc = "validated"
    /\ designSpecs.expectedTexts = << <<"L", " ", "g">>, <<"g", " ", "l">> >>
    /\ Len(fromPage.headings) = 1
    /\ fromPage.headings[1].text = <<"l", " ", "G">>
    /\ Len(issues) = 1
    /\ issues[1].section = <<"g", " ", "l">>


\* the extracted texts of the visible items only, in the order they are read
TextsOfVisible(tc) ==
    Texts(SelectSeq(tc.headings \o tc.paragraphs \o tc.buttons \o tc.links,
                    LAMBDA x : x.visible))

\* C22: the text searched is built from the visible items only: an expected
\* text that does not occur in the visible items' text (it occurs in hidden
\* items at most) gets a missing_content issue.
C22_CorpusFromVisibleOnly ==
    pc = "validated" =>
        \A k \in 1..Len(designSpecs.expectedTexts) :
            LET text == designSpecs.expectedTexts[k]
            IN  ~OccursIgnoringCase(text, Join(TextsOfVisible(fromPage)))
                    => MissingContentFor(text) = 1


\* a style value without its quotes and blanks
Stripped(str) == SelectSeq(str, LAMBDA ch : ch # "'" /\ ch # "\"" /\ ch # " ")

\* the letters of a style value, whatever their case
SameStyleLetter(a, b) == a = b \/ {a, b} = {"I", "i"}

ContainsNormalised(actual, expected) ==
    LET act == Stripped(actual)
        exp == Stripped(expected)
    IN  \E off \in 0..(Len(act) - Len(exp)) :
            \A j \in 1..Len(exp) : SameStyleLetter(act[off + j], exp[j])

\* C23: for a rule's property, validateStyles adds a style_mismatch issue,
\* naming the rule, the property, the expected and the actual value, exactly
\* when the computed value, lower-cased and without quotes and whitespace,
\* does not contain the expected value treated the same way; a value that
\* contains it (a longer font stack) adds nothing.
C23_StyleMismatchIffNotContained ==
    pc = "checked" =>
        IF ContainsNormalised(fromPage.value, fromPage.expected)
        THEN issues = <<>>
        ELSE /\ Len(issues) = 1
             /\ issues[1].type = "style_mismatch"
             /\ issues[1].section = fromPage.name
             /\ issues[1].prop = fromPage.prop
             /\ issues[1].expected = fromPage.expected
             /\ Stripped(issues[1].actual) = Stripped(fromPage.value)

\* '"I" s' is expected and the computed value is 's i', which holds the
\* same letters in another order
C23_Witness ==
    /\ pc = "checked"
    /\ fromPage.expected = <<"\"", "I", "\"", " ", "s">>
    /\ fromPage.value = <<"s", " ", "i">>
    /\ Len(issues) = 1
    /\ issues[1].type = "style_mismatch"


\* the section just analysed has a designed size and a measured one
Measured ==
    /\ pc = "sectionDone"
    /\ figmaDesignSpecs.loaded
    /\ fromPage.name \in DOMAIN figmaDesignSpecs.components
    /\ fromPage.box # NoBox

SizeIssues(dimension) ==
    SelectSeq(issues, LAMBDA i : i.type = "size_mismatch" /\ i.dimension = dimension)

OffByMoreThanTen(actual, expected) == actual - expected > 10 \/ expected - actual > 10

\* C24: for a visible section with a designed size, a size_mismatch issue is
\* added for the width exactly when the measured width is more than 10 away
\* from the designed one, and one for the height likewise (a difference of
\* exactly 10 adds none); each issue carries the section, the dimension, the
\* expected and the actual value.
C24_SizeMismatchBeyondTen ==
    Measured =>
        LET spec == figmaDesignSpecs.components[fromPage.name]
            box == fromPage.box
        IN  /\ Len(SizeIssues("width"))
                  = IF OffByMoreThanTen(box.width, spec.width) THEN 1 ELSE 0
            /\ Len(SizeIssues("height"))
                  = IF OffByMoreThanTen(box.height, spec.height) THEN 1 ELSE 0
            /\ Len(issues) = Len(SizeIssues("width")) + Len(SizeIssues("height"))
            /\ \A k \in 1..Len(issues) :
                  /\ issues[k].component = fromPage.name
                  /\ issues[k].expected
                        = IF issues[k].dimension = "width" THEN spec.width ELSE spec.height
                  /\ issues[k].actual
                        = IF issues[k].dimension = "width" THEN box.width ELSE box.height

\* the width is off by exactly 10, the height by 11: one issue, the height's
C24_Witness ==
    /\ Measured
    /\ figmaDesignSpecs.components[fromPage.name] = [width |-> 100, height |-> 40]
    /\ fromPage.box = [width |-> 110, height |-> 29]
    /\ Len(issues) = 1
    /\ issues[1].dimension = "height"


\* the step that recorded an issue: 1 takeScreenshotWithDiff, 2 analyzeSections,
\* 3 validateStyles
StepOf(issue) ==
    IF issue.type = "visual_diff" THEN 1
    ELSE IF issue.type = "style_mismatch"
            \/ issue.section \in {StyleErrorSection(StyleChecks[k]) : k \in 1..Len(StyleChecks)}
         THEN 3
    ELSE 2

\* the place of a section in the page's expected list
PlaceOf(section) ==
    LET expected == Expected(CurPage)
    IN  CHOOSE k \in 1..Len(expected) :
            expected[k] = section /\ \A j \in 1..(k - 1) : expected[j] # section

\* C25: when the steps of an iteration are over, the issue list is in the
\* order of evaluation: a visual_diff issue comes before every section issue,
\* the section issues come before every style issue, and two section issues
\* are in the order of their sections in the page's expected list.
C25_IssuesInEvaluationOrder ==
    pc \in {"generateReport", "afterReport"} =>
        \A i, j \in 1..Len(issues) :
            i < j =>
                /\ StepOf(issues[i]) <= StepOf(issues[j])
                /\ (StepOf(issues[i]) = 2 /\ StepOf(issues[j]) = 2)
                      => PlaceOf(issues[i].section) < PlaceOf(issues[j].section)

\* the issues of the first and the third expected section, then the style
\* issues of the header and the footer
C25_Witness ==
    /\ pc = "afterReport"
    /\ script = "qa-analyzer"
    /\ Len(issues) = 5
    /\ issues[1].section = Expected(CurPage)[1]
    /\ issues[2].section = Expected(CurPage)[3]
    /\ StepOf(issues[3]) = 3
    /\ StepOf(issues[5]) = 3


\* C26: every issue references the page and viewport it was found in: the
\* fields of an issue record determine the iteration that created it, so no
\* record of the iteration under way equals a record of the report returned
\* for another page or viewport.
C26_IssuesNameTheirContext ==
    (/\ script = "qa-analyzer"
     /\ pc \in {"validateStyles", "generateReport"}
     /\ held # NoHeld
     /\ held.name # Iteration) =>
        \A a \in 1..Len(held.issues), b \in 1..Len(issues) :
            held.issues[a] # issues[b]


\* C27: in quick-start.js, whenever run() reaches generateReport, the visual
\* compliance score is at least 80 and its status is GOOD, however many of
\* the five analysed sections were missing or errored: the full-page
\* screenshot and the three responsive ones count as found sections.
C27_QuickVisualAtLeast80 ==
    (script = "quick-start" /\ analysis # NoAnalysis) =>
        /\ analysis.visualCompliance.score.kind = "number"
        /\ analysis.visualCompliance.score.num >= 80 * analysis.visualCompliance.score.den
        /\ analysis.visualCompliance.status = "GOOD"
        /\ \A n \in {"full-page", "desktop-large", "tablet", "mobile"} :
              \E k \in 1..Len(screenshots) : screenshots[k].name = n

\* none of the five sections was captured: the score is 4 / 5 * 100
C27_Witness ==
    /\ script = "quick-start"
    /\ analysis # NoAnalysis
    /\ Len(screenshots) = 4
    /\ CountType(issues, "missing_section") + CountType(issues, "analysis_error") = 5
    /\ analysis.visualCompliance.score = Num(400, 5)
    /\ analysis.visualCompliance.status = "GOOD"


C29_CleanupAlwaysRuns ==
    /\ <>(pc = "done")
    /\ (failure # "none") ~> (pc = "done")
    /\ [](pc = "done" => browser = IF failure = "launch" THEN "none" ELSE "closed")
    /\ [][browser' # browser =>
             \/ browser = "none" /\ browser' = "open" /\ pc = "initialize"
             \/ browser = "open" /\ browser' = "closed" /\ pc = "cleanup" /\ pc' = "done"]_vars

\* part_003 failed to write its report and the browser is closed
C29_Witness ==
    /\ script = "part_003"
    /\ pc = "done"
    /\ failure = "write"
    /\ analysis # NoAnalysis
    /\ browser = "closed"


\* the iterations of the selected page: one per viewport, none if the name
\* is not a configured page's
SelectedIterations ==
    {[page |-> PagesToTest[i], vp |-> Viewports(script)[j]] :
        i \in {k \in 1..Len(PagesToTest) : PagesToTest[k] = singlePage},
        j \in 1..Len(Viewports(script))}

\* C30: with a page selected, run() navigates to that page only and writes
\* reports for it only, once per viewport; a run that comes to its end has
\* closed the browser and written every report of the selected page; with a
\* name that matches no configured page nothing is visited or written and the
\* run, once initialised, comes to its end without rejecting.
C30_SinglePageSelection ==
    /\ [](/\ started \subseteq SelectedIterations
          /\ reportFiles \subseteq SelectedIterations
          /\ pc = "done" =>
                /\ browser = "closed"
                /\ started = SelectedIterations
                /\ reportFiles = SelectedIterations
          /\ SelectedIterations = {} => pc # "rejected")
    /\ [][started' # started =>
             \/ started' = {}
             \/ \E it \in SelectedIterations \ started : started' = started \cup {it}]_vars

\* qa-analyzer.mjs --page=about: home was skipped, about has its three reports
C30_Witness ==
    /\ script = "qa-analyzer"
    /\ singlePage = "about"
    /\ pc = "done"
    /\ browser = "closed"
    /\ Cardinality(reportFiles) = 3
    /\ \A it \in started : it.page = "about"

====
